---- MODULE Spec2Model ----
(***************************************************************************)
(* Model of the data-steward application (src/app.py): the reconciliation  *)
(* routine update_table_data, the audit writer log_audit_change, and the   *)
(* Dash callbacks that feed it the original and the current snapshot.      *)
(*                                                                         *)
(* A value of a cell is a record [t, n, s]: t = "n" is Python None,        *)
(* t = "i" an int n, t = "s" a string s.  Str is Python's str().           *)
(***************************************************************************)
EXTENDS Integers, Sequences, FiniteSets, TLC

\* ------------------------------------------------------------------ bounds
MaxSaves == 2       \* confirmed saves in one session
MaxAdds == 2        \* clicks on "Add Row" in one session
MaxEdits == 1       \* cell edits in one session
MaxDeletes == 1     \* clicks on the delete column in one session
MaxExpiries == 1    \* times the OAuth token passes its age limit in one session
MaxRefreshFailures == 1  \* times the token service goes down in one session
MaxRaces == 1       \* events handled while the outputs of a triggered callback are awaited

\* ------------------------------------------------------------------ values
NULL == [t |-> "n", n |-> 0, s |-> ""]
IntV(k) == [t |-> "i", n |-> k, s |-> ""]
StrV(x) == [t |-> "s", n |-> 0, s |-> x]
EMPTY == StrV("")
AUTO == StrV("AUTO")

\* str(v)
Str(v) == IF v.t = "n" THEN "None" ELSE IF v.t = "i" THEN ToString(v.n) ELSE v.s

\* str.strip() on the strings of the model
Strip(x) == IF x \in {" ", "  "} THEN "" ELSE x

\* values the user types into a cell
EditVals == {EMPTY, StrV("5")}

\* values the user types into a cell of the key column
KeyEditVals == EditVals \cup {StrV(" "), StrV("1")}

\* ----------------------------------------------------------------- schemas
DEFAULT_SCHEMA == "dflt"
Schemas == {DEFAULT_SCHEMA, "other"}

\* the data table of the session, the audit table, and no table (None)
TableName == "t"
AUDIT_TABLE == "data_steward_audit"
NoTable == ""
Tables == {TableName, AUDIT_TABLE}

\* column lists (ordinal order) a table of the model can have; the selected
\* schema may also have no column metadata for the table at all (<<>>)
TableShapes == {<<"id">>, <<"id", "a">>, <<"id", "a", "b">>}

\* the rows of the data table when the session starts
InitialRows(cols) ==
  LET r1 == [c \in {cols[k] : k \in DOMAIN cols} |->
               IF c = "id" THEN IntV(1) ELSE IF c = "a" THEN StrV("x") ELSE IntV(5)]
      r2 == [c \in {cols[k] : k \in DOMAIN cols} |->
               IF c = "id" THEN IntV(2) ELSE NULL]
  IN <<r1, r2>>

\* the two-column table is also started with a single row
InitialStores(cols) ==
  IF cols = <<>> THEN {<<>>}
  ELSE IF Len(cols) = 2 THEN {InitialRows(cols), SubSeq(InitialRows(cols), 1, 1)}
  ELSE {InitialRows(cols)}

VARIABLES
  \* ---- backing store
  store,          \* committed rows of schema.t, a sequence of [column -> value]
  audit,          \* committed rows of schema.data_steward_audit
  seqNext,        \* next value of the sequence <table>_<pk>_seq
  auditTables,    \* schemas in which data_steward_audit exists
  dataCols,       \* ordered columns of table t in the selected schema
  metaCols,       \* ordered columns of the table t of DEFAULT_SCHEMA
  \* ---- credentials and the shared pool
  tokenExpired,   \* time.time() - last_password_refresh > 900
  poolGen,        \* how many ConnectionPool objects have been created so far
  poolFresh,      \* the pool was built with a token fetched when it was built
  nExpiries,      \* how often the token has passed its age limit
  tokenService,   \* "up" | "down": does oauth_token() of the workspace client answer
  nRefreshFailures, \* how often the token service has gone down
  \* ---- dcc.Store components and component properties
  schema,         \* selected-schema-store
  tableSel,       \* selected-table-store
  tableChoice,    \* table-selector.value
  unsavedOpen,    \* unsaved-changes-modal.is_open
  buttonsHidden,  \* the add-row and edit buttons are rendered with display none
  window,         \* "none" | "load" | "refresh": the triggered callback whose outputs are awaited
  raced,          \* events handled since that callback was triggered
  originalData,   \* original-data-store
  currentData,    \* current-data-store
  gridData,       \* data-grid.rowData
  gridCols,       \* "none" | "nopk" | "all": which cells the grid lets the user edit
  editMode,       \* edit-mode-store
  changesPending, \* changes-pending-store
  saveDisabled,   \* save-button.disabled
  saveVisible,    \* save-button is displayed
  modalOpen,      \* save-confirmation-modal.is_open
  message,        \* message-area: "none" | "success" | "error"
  loadError,      \* error returned by get_table_data and shown in data-grid-container
  \* ---- one call of update_table_data
  pc,             \* "idle" | "loop" | "del" | "commit" | "ret"
  idx,            \* position in updated_data (loop) or original_data (del)
  tx,             \* rows as seen inside the open transaction of conn
  columns,        \* columns = [col[0] for col in schema_info]
  counts,         \* [ins, chg, del]: inserts_count, changes_count, deletes_count
  stmts,          \* statements executed on cur by this call
  audit0,         \* Len(audit) when the call started
  store0,         \* store when the call started
  poolGen0,       \* poolGen when the call checked out conn
  sideCommits,    \* commits made during the call on connections other than conn
  result,         \* return value of the call
  \* ---- session bookkeeping
  nSaves, nAdds, nEdits, nDeletes

dbVars == <<store, audit, seqNext, auditTables, dataCols, metaCols>>
selVars == <<tableChoice, unsavedOpen, buttonsHidden, window, raced>>
uiVars == <<schema, tableSel, originalData, currentData, gridData, gridCols, editMode,
            changesPending, saveDisabled, saveVisible, modalOpen, message, loadError, selVars>>
poolVars == <<tokenExpired, poolGen, poolFresh, tokenService, nExpiries, nRefreshFailures>>
callVars == <<pc, idx, tx, columns, counts, stmts, audit0, store0, poolGen0, sideCommits, result>>
cntVars == <<nSaves, nAdds, nEdits, nDeletes>>
vars == <<dbVars, poolVars, uiVars, callVars, cntVars>>

NoResult == [ok |-> FALSE, msg |-> "none", parts |-> <<>>]
ZeroCounts == [ins |-> 0, chg |-> 0, del |-> 0]

\* snapshot row: d are the data fields, new is the '__new_row' marker
SnapRow(d, isNew) == [d |-> d, new |-> isNew]

Init ==
  /\ dataCols \in TableShapes \cup {<<>>}
  /\ schema \in Schemas
  /\ metaCols \in IF schema = DEFAULT_SCHEMA THEN {dataCols} ELSE {dataCols, <<>>}
  /\ auditTables \in IF schema = DEFAULT_SCHEMA THEN {{}} ELSE {{}, {schema}}
  /\ store \in InitialStores(dataCols)
  /\ audit = <<>>
  /\ seqNext = 3
  /\ tokenExpired = FALSE
  /\ poolGen = 1
  /\ poolFresh = TRUE
  /\ nExpiries = 0
  /\ tokenService = "up"
  /\ nRefreshFailures = 0
  /\ tableSel = NoTable
  /\ tableChoice = NoTable
  /\ unsavedOpen = FALSE
  /\ buttonsHidden = FALSE
  /\ window = "none"
  /\ raced = 0
  /\ originalData = <<>>
  /\ currentData = <<>>
  /\ gridData = <<>>
  /\ gridCols = "none"
  /\ editMode = FALSE
  /\ changesPending = FALSE
  /\ saveDisabled = TRUE
  /\ saveVisible = FALSE
  /\ modalOpen = FALSE
  /\ message = "none"
  /\ loadError = ""
  /\ pc = "idle"
  /\ idx = 0
  /\ tx = <<>>
  /\ columns = <<>>
  /\ counts = ZeroCounts
  /\ stmts = <<>>
  /\ audit0 = 0
  /\ store0 = <<>>
  /\ poolGen0 = 0
  /\ sideCommits = 0
  /\ result = NoResult
  /\ nSaves = 0
  /\ nAdds = 0
  /\ nEdits = 0
  /\ nDeletes = 0


\* ------------------------------------------------- credentials and pool

\* the clock passes last_password_refresh + 900
TokenExpires ==
  /\ ~tokenExpired /\ nExpiries < MaxExpiries
  /\ tokenExpired' = TRUE
  /\ nExpiries' = nExpiries + 1
  /\ UNCHANGED <<poolGen, poolFresh, tokenService, nRefreshFailures,
                 dbVars, uiVars, callVars, cntVars>>

\* the workspace stops handing out tokens: oauth_token() raises from now on
TokenServiceFails ==
  /\ tokenService = "up" /\ nRefreshFailures < MaxRefreshFailures
  /\ tokenService' = "down"
  /\ nRefreshFailures' = nRefreshFailures + 1
  /\ UNCHANGED <<tokenExpired, poolGen, poolFresh, nExpiries, dbVars, uiVars, callVars, cntVars>>

\* the workspace hands out tokens again
TokenServiceRecovers ==
  /\ tokenService = "down"
  /\ tokenService' = "up"
  /\ UNCHANGED <<tokenExpired, poolGen, poolFresh, nExpiries, nRefreshFailures,
                 dbVars, uiVars, callVars, cntVars>>

\* get_connection: with an expired token the pool is closed and dropped, and
\* get_connection_pool calls refresh_oauth_token, ignores its result and
\* creates a new pool with the password it finds
GetConnection ==
  IF tokenExpired
  THEN LET fetched == tokenService = "up"
       IN /\ tokenExpired' = ~fetched
          /\ poolGen' = poolGen + 1
          /\ poolFresh' = fetched
          /\ UNCHANGED <<tokenService, nExpiries, nRefreshFailures>>
  ELSE UNCHANGED poolVars

\* ------------------------------------------------------- UI event handlers

\* a slip of TableNotFound: the message names the table without its schema
TableNotFoundUnqualified(s, t) == "Table '" \o t \o "' not found"

\* the error text of get_table_data for a table without column metadata
TableNotFound(s, t) == "Table '" \o s \o "." \o t \o "' not found"

\* no triggered callback is awaited
Settled == window = "none"

\* an event arrives while the outputs of a triggered callback are awaited
MayRace == window # "none" /\ raced < MaxRaces

\* handle_table_selection, trigger table-selector: with unsaved changes and
\* another table selected the dialog opens; otherwise selected-table-store is
\* set, which triggers load_table_data
SelectTable(t) ==
  /\ pc = "idle" /\ Settled /\ ~modalOpen /\ ~unsavedOpen
  /\ t # tableChoice
  /\ tableChoice' = t
  /\ IF changesPending /\ tableSel # NoTable /\ t # tableSel
     THEN unsavedOpen' = TRUE /\ UNCHANGED <<tableSel, window>>
     ELSE unsavedOpen' = FALSE /\ tableSel' = t /\ window' = "load"
  /\ UNCHANGED <<schema, originalData, currentData, gridData, gridCols, editMode,
                 changesPending, saveDisabled, saveVisible, modalOpen, message, loadError,
                 buttonsHidden, raced, dbVars, poolVars, callVars, cntVars>>

\* handle_table_selection, trigger save-and-continue: the dialog is closed
SaveAndContinue ==
  /\ pc = "idle" /\ unsavedOpen
  /\ unsavedOpen' = FALSE
  /\ UNCHANGED <<schema, tableSel, originalData, currentData, gridData, gridCols, editMode,
                 changesPending, saveDisabled, saveVisible, modalOpen, message, loadError,
                 tableChoice, buttonsHidden, window, raced, dbVars, poolVars, callVars, cntVars>>

\* handle_table_selection, trigger discard-and-continue: the dialog is closed
\* and selected-table-store is set to the value of the selector
DiscardAndContinue ==
  /\ pc = "idle" /\ unsavedOpen
  /\ unsavedOpen' = FALSE
  /\ tableSel' = tableChoice
  /\ window' = "load"
  /\ UNCHANGED <<schema, originalData, currentData, gridData, gridCols, editMode,
                 changesPending, saveDisabled, saveVisible, modalOpen, message, loadError,
                 tableChoice, buttonsHidden, raced, dbVars, poolVars, callVars, cntVars>>

\* row j of data_steward_audit as a record of get_table_data
AuditRecord(j) ==
  [audit_id |-> IntV(j), record_id |-> StrV(audit[j].rid), column_name |-> StrV(audit[j].col),
   old_value |-> audit[j].old, new_value |-> audit[j].new, action_type |-> StrV(audit[j].act)]

\* the outputs of load_table_data for the selected table, read through
\* get_table_data: on an error, and for a table without rows, it stores no
\* snapshot and renders no button; a missing audit table it tries to create
LoadTable ==
  /\ pc = "idle" /\ window = "load"
  /\ LET isAudit == tableSel = AUDIT_TABLE
         found == IF isAudit THEN schema \in auditTables ELSE dataCols # <<>>
         data == IF ~found THEN <<>>
                 ELSE IF isAudit THEN [j \in DOMAIN audit |-> SnapRow(AuditRecord(j), FALSE)]
                 ELSE [k \in DOMAIN store |-> SnapRow(store[k], FALSE)]
     IN /\ loadError' = IF found \/ isAudit THEN "" ELSE TableNotFound(schema, tableSel)
        /\ \E created \in (IF isAudit /\ ~found THEN BOOLEAN ELSE {FALSE}) :
             auditTables' = IF created THEN auditTables \cup {schema} ELSE auditTables
        /\ originalData' = data
        /\ currentData' = data
        /\ gridData' = data
        /\ buttonsHidden' = (isAudit \/ data = <<>>)
  /\ gridCols' = "none"
  /\ editMode' = FALSE
  /\ changesPending' = FALSE
  /\ saveDisabled' = TRUE
  /\ saveVisible' = FALSE
  /\ window' = "none"
  /\ raced' = 0
  /\ GetConnection
  /\ UNCHANGED <<schema, tableSel, tableChoice, unsavedOpen, modalOpen, message,
                 store, audit, seqNext, dataCols, metaCols, callVars, cntVars>>

\* filter_and_search_data and update_grid_with_filtered_data, triggered by a
\* new original-data-store: the grid is rebuilt from it for the current mode
RefreshGrid ==
  /\ pc = "idle" /\ window = "refresh"
  /\ IF originalData = <<>> \/ tableSel = AUDIT_TABLE
     THEN UNCHANGED <<gridData, gridCols>>
     ELSE /\ gridData' = originalData
          /\ gridCols' = IF editMode THEN "all" ELSE "none"
  /\ window' = "none"
  /\ raced' = 0
  /\ UNCHANGED <<schema, tableSel, originalData, currentData, editMode, changesPending,
                 saveDisabled, saveVisible, modalOpen, message, loadError,
                 tableChoice, unsavedOpen, buttonsHidden, dbVars, poolVars, callVars, cntVars>>

\* toggle_edit_mode: click on the displayed edit button
ToggleEditClicked ==
  /\ pc = "idle" /\ ~modalOpen /\ ~unsavedOpen
  /\ ~saveVisible /\ ~buttonsHidden
  /\ tableSel # NoTable /\ originalData # <<>>
  /\ editMode' = TRUE
  /\ gridData' = originalData
  /\ gridCols' = "all"
  /\ saveVisible' = TRUE
  /\ saveDisabled' = TRUE
  /\ changesPending' = FALSE
  /\ buttonsHidden' = FALSE
  /\ UNCHANGED <<schema, tableSel, originalData, currentData, modalOpen, message, loadError,
                 tableChoice, unsavedOpen, dbVars, poolVars, callVars, cntVars>>

ToggleEdit == Settled /\ ToggleEditClicked /\ UNCHANGED <<window, raced>>

\* the click arrives while load_table_data or the grid refresh is under way
RacedToggleEdit == MayRace /\ ToggleEditClicked /\ raced' = raced + 1 /\ UNCHANGED window

\* a slip of CellEdited: the handler does not look at edit-mode-store
CellEditedInAnyMode(i, c, v) ==
  /\ pc = "idle" /\ ~modalOpen /\ ~unsavedOpen /\ nEdits < MaxEdits
  /\ gridCols # "none"
  /\ i \in DOMAIN gridData
  /\ c \in DOMAIN gridData[i].d
  /\ gridCols = "nopk" => c # dataCols[1]
  /\ v \in (IF c = dataCols[1] THEN KeyEditVals ELSE EditVals)
  /\ gridData[i].d[c] # v
  /\ gridData' = [gridData EXCEPT ![i].d[c] = v]
  /\ currentData' = [gridData EXCEPT ![i].d[c] = v]
  /\ changesPending' = TRUE
  /\ saveDisabled' = FALSE
  /\ nEdits' = nEdits + 1
  /\ UNCHANGED <<schema, tableSel, originalData, gridCols, editMode, saveVisible, modalOpen,
                 message, loadError, tableChoice, unsavedOpen, buttonsHidden,
                 dbVars, poolVars, callVars, nSaves, nAdds, nDeletes>>

\* the grid changes a cell and fires cellValueChanged: track_data_changes
CellEdited(i, c, v) ==
  /\ pc = "idle" /\ ~modalOpen /\ ~unsavedOpen /\ nEdits < MaxEdits
  /\ gridCols # "none"
  /\ i \in DOMAIN gridData
  /\ c \in DOMAIN gridData[i].d
  /\ gridCols = "nopk" => c # dataCols[1]
  /\ v \in (IF c = dataCols[1] THEN KeyEditVals ELSE EditVals)
  /\ gridData[i].d[c] # v
  /\ LET g == [gridData EXCEPT ![i].d[c] = v]
     IN /\ gridData' = g
        /\ IF editMode
           THEN /\ currentData' = g
                /\ changesPending' = TRUE
                /\ saveDisabled' = FALSE
           ELSE UNCHANGED <<currentData, changesPending, saveDisabled>>
  /\ nEdits' = nEdits + 1
  /\ UNCHANGED <<schema, tableSel, originalData, gridCols, editMode, saveVisible, modalOpen,
                 message, loadError, tableChoice, unsavedOpen, buttonsHidden,
                 dbVars, poolVars, callVars, nSaves, nAdds, nDeletes>>

CellEdit(i, c, v) == Settled /\ CellEdited(i, c, v) /\ UNCHANGED <<window, raced>>

\* the edit arrives while load_table_data or the grid refresh is under way
RacedCellEdit(i, c, v) ==
  MayRace /\ CellEdited(i, c, v) /\ raced' = raced + 1 /\ UNCHANGED window

\* add_new_row: click on the displayed add-row button; for the audit table the
\* handler returns no update
AddRowClicked ==
  /\ pc = "idle" /\ ~modalOpen /\ ~unsavedOpen /\ nAdds < MaxAdds
  /\ ~buttonsHidden
  /\ tableSel # NoTable /\ currentData # <<>>
  /\ IF tableSel = AUDIT_TABLE
     THEN UNCHANGED <<currentData, gridData, gridCols, changesPending, saveDisabled,
                      saveVisible, editMode, buttonsHidden>>
     ELSE /\ LET sample == currentData[1].d
                 pkc == dataCols[1]
                 newRow == SnapRow([c \in DOMAIN sample |-> IF c = pkc THEN AUTO ELSE EMPTY], TRUE)
                 updated == Append(currentData, newRow)
             IN /\ currentData' = updated
                /\ gridData' = updated
          /\ gridCols' = "nopk"
          /\ changesPending' = TRUE
          /\ saveDisabled' = FALSE
          /\ saveVisible' = TRUE
          /\ editMode' = TRUE
          /\ buttonsHidden' = FALSE
  /\ nAdds' = nAdds + 1
  /\ UNCHANGED <<schema, tableSel, originalData, modalOpen, message, loadError,
                 tableChoice, unsavedOpen, dbVars, poolVars, callVars, nSaves, nEdits, nDeletes>>

AddRow == Settled /\ AddRowClicked /\ UNCHANGED <<window, raced>>

\* the click arrives while load_table_data or the grid refresh is under way
RacedAddRow == MayRace /\ AddRowClicked /\ raced' = raced + 1 /\ UNCHANGED window

RemoveAt(q, i) == [k \in 1..(Len(q) - 1) |-> IF k < i THEN q[k] ELSE q[k + 1]]

\* handle_delete_row: click on the delete column of grid row i; outside edit
\* mode the handler returns no update
DeleteClicked(i) ==
  /\ pc = "idle" /\ ~modalOpen /\ ~unsavedOpen /\ nDeletes < MaxDeletes
  /\ gridCols # "none"
  /\ i \in DOMAIN gridData
  /\ IF editMode
     THEN /\ currentData # <<>>
          /\ i <= Len(currentData)
          /\ LET updated == RemoveAt(currentData, i)
             IN /\ currentData' = updated
                /\ gridData' = updated
                /\ gridCols' = IF updated = <<>> THEN "none" ELSE "all"
          /\ changesPending' = TRUE
          /\ saveDisabled' = FALSE
     ELSE UNCHANGED <<currentData, gridData, gridCols, changesPending, saveDisabled>>
  /\ nDeletes' = nDeletes + 1
  /\ UNCHANGED <<schema, tableSel, originalData, editMode, saveVisible, modalOpen, message, loadError,
                 tableChoice, unsavedOpen, buttonsHidden, dbVars, poolVars, callVars,
                 nSaves, nAdds, nEdits>>

DeleteRow(i) == Settled /\ DeleteClicked(i) /\ UNCHANGED <<window, raced>>

\* the click arrives while load_table_data or the grid refresh is under way
RacedDeleteRow(i) == MayRace /\ DeleteClicked(i) /\ raced' = raced + 1 /\ UNCHANGED window

\* ---- handle_save_confirmation, trigger save-button: are there actual changes
Blank(v) == v = EMPTY \/ v = NULL

\* original_lookup / current_lookup: the last row with the key wins
LastWith(snap, pkc, key, onlyOld) ==
  LET hits == {k \in DOMAIN snap : /\ pkc \in DOMAIN snap[k].d
                                   /\ Str(snap[k].d[pkc]) = key
                                   /\ (onlyOld => ~snap[k].new)}
  IN IF hits = {} THEN 0 ELSE CHOOSE k \in hits : \A h \in hits : h <= k

ActualChanges(cur, orig) ==
  LET pkc == dataCols[1]
      rowChange(row) ==
        LET pkv == row.d[pkc]
            isNew == row.new \/ Blank(pkv)
            hasData == \E c \in DOMAIN row.d : c # pkc /\ ~Blank(row.d[c])
            o == LastWith(orig, pkc, Str(pkv), FALSE)
        IN IF isNew /\ hasData THEN TRUE
           ELSE IF o # 0
                THEN \E c \in DOMAIN row.d :
                       Str(IF c \in DOMAIN orig[o].d THEN orig[o].d[c] ELSE EMPTY) # Str(row.d[c])
                ELSE FALSE
      deleted(o) == LastWith(cur, pkc, Str(orig[o].d[pkc]), TRUE) = 0
  IN \/ \E k \in DOMAIN cur : rowChange(cur[k])
     \/ \E o \in DOMAIN orig : deleted(o)

\* handle_save_confirmation, trigger save-button: the confirm dialog is opened
\* only in edit mode, for a current-data-store that is not empty, and when
\* there are actual changes
OpensConfirmDialog ==
  editMode /\ currentData # <<>> /\ ActualChanges(currentData, originalData)

\* click on the (enabled, displayed) save button
SaveClick ==
  /\ pc = "idle" /\ Settled /\ ~modalOpen /\ ~unsavedOpen
  /\ saveVisible /\ ~saveDisabled
  /\ modalOpen' = OpensConfirmDialog
  /\ UNCHANGED <<schema, tableSel, originalData, currentData, gridData, gridCols, editMode,
                 changesPending, saveDisabled, saveVisible, message, loadError, selVars,
                 dbVars, poolVars, callVars, cntVars>>

\* click on cancel-save
CancelSave ==
  /\ pc = "idle" /\ modalOpen
  /\ modalOpen' = FALSE
  /\ UNCHANGED <<schema, tableSel, originalData, currentData, gridData, gridCols, editMode,
                 changesPending, saveDisabled, saveVisible, message, loadError, selVars,
                 dbVars, poolVars, callVars, cntVars>>


\* ------------------------------------------------------ log_audit_change

\* str(v) if v is not None else None
AuditStr(v) == IF v = NULL THEN NULL ELSE StrV(Str(v))

\* the row log_audit_change inserts into <schema>.data_steward_audit
AuditEntry(rid, col, old, new, act) ==
  [rid |-> Str(rid), col |-> col, old |-> AuditStr(old), new |-> AuditStr(new), act |-> act]

\* log_audit_change called once per entry, on a connection of its own, each call
\* committing its entry; the INSERT raises when <schema>.data_steward_audit does
\* not exist, and the call then returns False and persists nothing
LogAuditChanges(log, entries) ==
  IF schema \in auditTables THEN log \o entries ELSE log

\* the calls of log_audit_change one loop step makes: each call takes a
\* connection of its own from get_connection and commits its entry on it
LogAudit(entries) ==
  /\ audit' = LogAuditChanges(audit, entries)
  /\ sideCommits' = sideCommits + (Len(LogAuditChanges(audit, entries)) - Len(audit))
  /\ IF entries # <<>> THEN GetConnection ELSE UNCHANGED poolVars

\* a loop step that does not reach log_audit_change
NoAudit == UNCHANGED <<audit, sideCommits, poolVars>>

\* ------------------------------------------------------ update_table_data

ColSet(cols) == {cols[k] : k \in DOMAIN cols}

\* WHERE <pk> = %s
KeyMatch(dbv, param) == dbv # NULL /\ param # NULL /\ Str(dbv) = Str(param)

\* a slip of IsNewRow: a key of blanks is not taken for an empty key
IsNewRowUnstripped(row, pkv, hasOrig) ==
  row.new \/ (~hasOrig /\ (pkv = EMPTY \/ pkv = NULL))

\* a slip of IsNewRow: every row without an original row is taken for new
IsNewRowUnmatched(row, pkv, hasOrig) == row.new \/ ~hasOrig

\* is_new_row
IsNewRow(row, pkv, hasOrig) ==
  row.new \/ (~hasOrig /\ (pkv = EMPTY \/ pkv = NULL \/ Strip(Str(pkv)) = ""))

\* a slip of InsertColumns: empty and null values are inserted too
InsertColumnsUnfiltered(cols, clean) ==
  LET keep(c) == c \in DOMAIN clean
  IN SelectSeq(Tail(cols), keep)

\* insert_columns
InsertColumns(cols, clean) ==
  LET keep(c) == c \in DOMAIN clean /\ clean[c] # EMPTY /\ clean[c] # NULL
  IN SelectSeq(Tail(cols), keep)

\* a slip of ChangedColumns: the values are compared, not their string forms
ChangedColumnsTyped(cols, row, orig) ==
  LET old(c) == IF c \in DOMAIN orig THEN orig[c] ELSE NULL
      differs(c) == c \in DOMAIN row /\ old(c) # row[c]
  IN SelectSeq(Tail(cols), differs)

\* the columns whose string form differs between original_row and row
ChangedColumns(cols, row, orig) ==
  LET old(c) == IF c \in DOMAIN orig THEN orig[c] ELSE NULL
      differs(c) == c \in DOMAIN row /\ Str(old(c)) # Str(row[c])
  IN SelectSeq(Tail(cols), differs)

\* a slip of UpdatedKeys: the rows with the is-new marker are kept in the lookup
UpdatedKeysWithNew(cur, pkc) ==
  {Str(cur[k].d[pkc]) : k \in {j \in DOMAIN cur : pkc \in DOMAIN cur[j].d}}

\* keys of updated_lookup
UpdatedKeys(cur, pkc) ==
  {Str(cur[k].d[pkc]) : k \in {j \in DOMAIN cur : ~cur[j].new /\ pkc \in DOMAIN cur[j].d}}

Stmt(op, at, key, cols, vals) == [op |-> op, at |-> at, key |-> key, cols |-> cols, vals |-> vals]

\* a slip of MessageParts: the zero counts are reported too
MessagePartsWithZeros(c) ==
  <<ToString(c.ins) \o " new rows inserted", ToString(c.chg) \o " changes made",
    ToString(c.del) \o " rows deleted">>

\* message_parts
MessageParts(c) ==
  (IF c.ins > 0 THEN <<ToString(c.ins) \o " new rows inserted">> ELSE <<>>)
  \o (IF c.chg > 0 THEN <<ToString(c.chg) \o " changes made">> ELSE <<>>)
  \o (IF c.del > 0 THEN <<ToString(c.del) \o " rows deleted">> ELSE <<>>)

\* " and ".join(parts)
RECURSIVE JoinAnd(_)
JoinAnd(parts) ==
  IF Len(parts) = 1 THEN parts[1] ELSE parts[1] \o " and " \o JoinAnd(Tail(parts))

\* return True, <summary>
Success(c) ==
  [ok |-> TRUE,
   msg |-> IF MessageParts(c) # <<>> THEN JoinAnd(MessageParts(c)) \o " - all logged"
           ELSE "No changes detected",
   parts |-> MessageParts(c)]

Failure(text) == [ok |-> FALSE, msg |-> text, parts |-> <<>>]

\* a slip of Raise: the work of the transaction is kept although the call fails
RaiseKeepsWork(text) ==
  /\ pc' = "ret"
  /\ result' = Failure(text)
  /\ tx' = tx
  /\ store' = tx
  /\ UNCHANGED <<idx, columns, counts, stmts, audit0, store0, poolGen0>>

\* an exception leaves both with-blocks: the transaction of conn is rolled back
Raise(text) ==
  /\ pc' = "ret"
  /\ result' = Failure(text)
  /\ tx' = store
  /\ UNCHANGED <<store, idx, columns, counts, stmts, audit0, store0, poolGen0>>

\* click on confirm-save: handle_save_confirmation closes the modal and
\* save_data_to_database calls update_table_data, which runs up to the row loop
ConfirmSave ==
  /\ pc = "idle" /\ Settled /\ modalOpen /\ nSaves < MaxSaves
  /\ modalOpen' = FALSE
  /\ currentData # <<>> /\ originalData # <<>> /\ tableSel # NoTable
  /\ nSaves' = nSaves + 1
  /\ \E created \in BOOLEAN, outcome \in {"ok", "noconn", "noschema"} :
       /\ auditTables' = IF created THEN auditTables \cup {DEFAULT_SCHEMA} ELSE auditTables
       /\ LET schema_info == IF outcome = "noschema" THEN <<>> ELSE metaCols
          IN /\ audit0' = Len(audit)
             /\ store0' = store
             /\ stmts' = <<>>
             /\ counts' = ZeroCounts
             /\ tx' = store
             /\ columns' = schema_info
             /\ idx' = 1
             /\ sideCommits' = 0
             /\ GetConnection
             /\ poolGen0' = poolGen'
             /\ IF outcome = "noconn"
                THEN pc' = "ret" /\ result' = Failure("error")
                ELSE IF schema_info = <<>>
                THEN pc' = "ret" /\ result' = Failure("Could not get table schema")
                ELSE IF \E k \in DOMAIN originalData : schema_info[1] \notin DOMAIN originalData[k].d
                THEN pc' = "ret" /\ result' = Failure("error")
                ELSE pc' = "loop" /\ result' = NoResult
  /\ UNCHANGED <<store, audit, seqNext, dataCols, metaCols, schema, tableSel, originalData,
                 currentData, gridData, gridCols, editMode, changesPending, saveDisabled,
                 saveVisible, message, loadError, selVars, nAdds, nEdits, nDeletes>>

\* where the row loop goes after the row at idx
AfterRow == IF idx = Len(currentData) THEN pc' = "del" /\ idx' = 1
            ELSE pc' = "loop" /\ idx' = idx + 1

\* one iteration of "for row in updated_data"
UpdateRow ==
  /\ pc = "loop"
  /\ LET row == currentData[idx]
         clean_row == row.d
         pk_column == columns[1]
     IN IF pk_column \notin DOMAIN clean_row
        THEN Raise("error") /\ NoAudit /\ UNCHANGED seqNext
        ELSE
        LET pk_value == clean_row[pk_column]
            o == LastWith(originalData, pk_column, Str(pk_value), FALSE)
            insert_columns == InsertColumns(columns, clean_row)
            new_pk == IntV(seqNext)
            inserted == [c \in ColSet(dataCols) |->
                           IF c = pk_column THEN new_pk
                           ELSE IF c \in ColSet(insert_columns) THEN clean_row[c] ELSE NULL]
        IN IF IsNewRow(row, pk_value, o # 0)
           THEN IF insert_columns # <<>>
                THEN \E stmtOk \in BOOLEAN :
                       IF stmtOk
                       THEN /\ tx' = Append(tx, inserted)
                            /\ seqNext' = seqNext + 1
                            /\ counts' = [counts EXCEPT !.ins = @ + 1]
                            /\ stmts' = Append(stmts, Stmt("INSERT", idx, new_pk, insert_columns,
                                           [k \in DOMAIN insert_columns |-> clean_row[insert_columns[k]]]))
                            /\ LogAudit([k \in DOMAIN insert_columns |->
                                           AuditEntry(new_pk, insert_columns[k], NULL,
                                                      clean_row[insert_columns[k]], "INSERT")])
                            /\ AfterRow
                            /\ UNCHANGED <<store, columns, audit0, store0, poolGen0, result>>
                       ELSE Raise("error") /\ NoAudit /\ UNCHANGED seqNext
                ELSE /\ AfterRow
                     /\ NoAudit
                     /\ UNCHANGED <<store, seqNext, tx, columns, counts, stmts,
                                    audit0, store0, poolGen0, result>>
           ELSE IF o = 0
           THEN /\ AfterRow
                /\ NoAudit
                /\ UNCHANGED <<store, seqNext, tx, columns, counts, stmts,
                               audit0, store0, poolGen0, result>>
           ELSE
           LET original_row == originalData[o].d
               changed == ChangedColumns(columns, clean_row, original_row)
               entries == [k \in DOMAIN changed |->
                             AuditEntry(pk_value, changed[k],
                                        IF changed[k] \in DOMAIN original_row
                                        THEN original_row[changed[k]] ELSE NULL,
                                        clean_row[changed[k]], "UPDATE")]
           IN \E stmtOk \in BOOLEAN :
                /\ LogAudit(entries)
                /\ UNCHANGED seqNext
                /\ IF changed = <<>>
                   THEN /\ AfterRow
                        /\ UNCHANGED <<store, tx, columns, counts, stmts, audit0, store0,
                                       poolGen0, result>>
                   ELSE IF stmtOk
                   THEN /\ tx' = [j \in DOMAIN tx |->
                                    IF KeyMatch(tx[j][pk_column], pk_value)
                                    THEN [c \in DOMAIN tx[j] |->
                                            IF c \in ColSet(changed) THEN clean_row[c] ELSE tx[j][c]]
                                    ELSE tx[j]]
                        /\ counts' = [counts EXCEPT !.chg = @ + Len(changed)]
                        /\ stmts' = Append(stmts, Stmt("UPDATE", idx, pk_value, changed,
                                       [k \in DOMAIN changed |-> clean_row[changed[k]]]))
                        /\ AfterRow
                        /\ UNCHANGED <<store, columns, audit0, store0, poolGen0, result>>
                   ELSE Raise("error")
  /\ UNCHANGED <<auditTables, dataCols, metaCols, uiVars, cntVars>>

\* one iteration of "for orig_row in original_data"
DeleteRowPass ==
  /\ pc = "del"
  /\ LET orig_row == originalData[idx].d
         pk_column == columns[1]
         orig_pk == Str(orig_row[pk_column])
         after == IF idx = Len(originalData) THEN pc' = "commit" /\ idx' = idx
                  ELSE pc' = "del" /\ idx' = idx + 1
         logged == SelectSeq(Tail(columns), LAMBDA c : c \in DOMAIN orig_row)
     IN IF orig_pk \notin UpdatedKeys(currentData, pk_column)
        THEN \E stmtOk \in BOOLEAN :
               IF stmtOk
               THEN /\ tx' = SelectSeq(tx, LAMBDA r : ~KeyMatch(r[pk_column], orig_row[pk_column]))
                    /\ counts' = [counts EXCEPT !.del = @ + 1]
                    /\ stmts' = Append(stmts, Stmt("DELETE", idx, orig_row[pk_column], <<>>, <<>>))
                    /\ LogAudit([k \in DOMAIN logged |->
                                   AuditEntry(orig_row[pk_column], logged[k],
                                              orig_row[logged[k]], NULL, "DELETE")])
                    /\ after
                    /\ UNCHANGED <<store, columns, audit0, store0, poolGen0, result>>
               ELSE Raise("error") /\ NoAudit
        ELSE /\ after
             /\ NoAudit
             /\ UNCHANGED <<store, tx, columns, counts, stmts, audit0, store0, poolGen0, result>>
  /\ UNCHANGED <<seqNext, auditTables, dataCols, metaCols, uiVars, cntVars>>

\* conn.commit() and the return of the summary
Commit ==
  /\ pc = "commit"
  /\ \E commitOk \in BOOLEAN :
       IF commitOk
       THEN /\ store' = tx
            /\ pc' = "ret"
            /\ result' = Success(counts)
            /\ UNCHANGED <<idx, tx, columns, counts, stmts, audit0, store0, poolGen0>>
       ELSE Raise("error")
  /\ NoAudit
  /\ UNCHANGED <<seqNext, auditTables, dataCols, metaCols, uiVars, cntVars>>

\* updated_data of save_data_to_database: the '__new_row' marker is deleted
ClearNewMarkers(snap) == [k \in DOMAIN snap |-> SnapRow(snap[k].d, FALSE)]

\* the outputs of save_data_to_database when update_table_data succeeded; the new
\* original-data-store triggers filter_and_search_data and then
\* update_grid_with_filtered_data (RefreshGrid)
SaveSucceeded ==
  /\ message' = "success"
  /\ changesPending' = FALSE
  /\ originalData' = ClearNewMarkers(currentData)
  /\ saveDisabled' = TRUE
  /\ saveVisible' = FALSE
  /\ gridData' = ClearNewMarkers(currentData)
  /\ editMode' = FALSE
  /\ buttonsHidden' = FALSE
  /\ window' = "refresh"
  /\ raced' = 0
  /\ UNCHANGED <<currentData, gridCols>>

\* a slip of SaveFailed: the failed save is treated like a successful one
SaveFailedAdoptsCurrent ==
  /\ message' = "error"
  /\ changesPending' = TRUE
  /\ saveDisabled' = FALSE
  /\ originalData' = ClearNewMarkers(currentData)
  /\ UNCHANGED <<currentData, gridData, gridCols, editMode, saveVisible,
                 buttonsHidden, window, raced>>

\* the outputs of save_data_to_database when update_table_data failed
SaveFailed ==
  /\ message' = "error"
  /\ changesPending' = TRUE
  /\ saveDisabled' = FALSE
  /\ UNCHANGED <<originalData, currentData, gridData, gridCols, editMode, saveVisible,
                 buttonsHidden, window, raced>>

\* save_data_to_database after update_table_data returned
SaveReturn ==
  /\ pc = "ret"
  /\ pc' = "idle"
  /\ IF result.ok THEN SaveSucceeded ELSE SaveFailed
  /\ idx' = 0 /\ tx' = <<>> /\ columns' = <<>> /\ counts' = ZeroCounts /\ stmts' = <<>>
  /\ audit0' = 0 /\ store0' = <<>> /\ poolGen0' = 0 /\ sideCommits' = 0 /\ result' = NoResult
  /\ UNCHANGED <<schema, tableSel, tableChoice, unsavedOpen, modalOpen, loadError,
                 dbVars, poolVars, cntVars>>

\* a session on the data table: every event waits for the outputs of the
\* callbacks triggered before it
Next ==
  \/ TokenExpires
  \/ SelectTable(TableName)
  \/ LoadTable
  \/ RefreshGrid
  \/ ToggleEdit
  \/ \E i \in 1..4, c \in {"id", "a", "b"}, v \in KeyEditVals : CellEdit(i, c, v)
  \/ AddRow
  \/ \E i \in 1..4 : DeleteRow(i)
  \/ SaveClick
  \/ CancelSave
  \/ ConfirmSave
  \/ UpdateRow
  \/ DeleteRowPass
  \/ Commit
  \/ SaveReturn

Spec == Init /\ [][Next]_vars

\* a session that also switches between the data table and the audit table
\* and in which an event can arrive while the outputs of a triggered callback
\* are awaited; the token does not expire, and the add-row button is clicked
\* only during such a wait
NextSwitching ==
  \/ \E t \in Tables : SelectTable(t)
  \/ SaveAndContinue
  \/ DiscardAndContinue
  \/ LoadTable
  \/ RefreshGrid
  \/ ToggleEdit
  \/ RacedToggleEdit
  \/ \E i \in 1..4, c \in {"id", "a", "b"}, v \in KeyEditVals : CellEdit(i, c, v)
  \/ \E i \in 1..4, c \in {"id", "a", "b"}, v \in KeyEditVals : RacedCellEdit(i, c, v)
  \/ RacedAddRow
  \/ \E i \in 1..4 : DeleteRow(i)
  \/ \E i \in 1..4 : RacedDeleteRow(i)
  \/ SaveClick
  \/ CancelSave
  \/ ConfirmSave
  \/ UpdateRow
  \/ DeleteRowPass
  \/ Commit
  \/ SaveReturn

SpecSwitching == Init /\ [][NextSwitching]_vars

\* a session of loads, cell edits and saves during which the token expires
\* and the token service can be down
NextPool ==
  \/ TokenExpires
  \/ TokenServiceFails
  \/ TokenServiceRecovers
  \/ SelectTable(TableName)
  \/ LoadTable
  \/ RefreshGrid
  \/ ToggleEdit
  \/ \E i \in 1..4, c \in {"id", "a", "b"}, v \in KeyEditVals : CellEdit(i, c, v)
  \/ SaveClick
  \/ CancelSave
  \/ ConfirmSave
  \/ UpdateRow
  \/ DeleteRowPass
  \/ Commit
  \/ SaveReturn

SpecPool == Init /\ [][NextPool]_vars


\* ================================================================== claims

\* the audit rows committed since the running call of update_table_data started
NewAuditRows == {j \in DOMAIN audit : j > audit0}

\* the call of update_table_data has returned; its return value is result
Returned == pc = "ret"

\* first column of the selected table and its other columns
KeyColumn == dataCols[1]
NonKeyColumns == ColSet(Tail(dataCols))

\* rows of a snapshot that carry the string form key in the key column
RowsWithKey(snap, key) == {k \in DOMAIN snap : Str(snap[k].d[KeyColumn]) = key}

\* ------------------------------------------------------------------- C1
\* C1: when a statement of one call of update_table_data raises, the table
\* holds after the call exactly the rows it held before the call.
C1_RowsAllOrNothing == (Returned /\ ~result.ok) => store = store0

\* a call failed after it had executed row statements inside its transaction
C1_Witness == Returned /\ ~result.ok /\ Len(stmts) >= 2

\* ------------------------------------------------------------------- C2
\* C2: a call of update_table_data that returns (False, message) leaves no
\* audit entry of its own in the audit table.
C2_NoAuditAfterFailure == (Returned /\ ~result.ok) => NewAuditRows = {}

\* ------------------------------------------------------------------- C3
\* C3: after a committed reconciliation every committed row statement has at
\* least one persisted audit entry that describes it (same record, same action).
C3_EveryMutationAudited ==
  (Returned /\ result.ok) =>
    \A k \in DOMAIN stmts :
      \E j \in NewAuditRows : audit[j].rid = Str(stmts[k].key) /\ audit[j].act = stmts[k].op

\* ------------------------------------------------------------------- C4
\* the number of log_audit_change calls the executed statements ask for
RECURSIVE AuditCallsFor(_)
AuditCallsFor(q) ==
  IF q = <<>> THEN 0
  ELSE (IF Head(q).op = "DELETE"
        THEN Cardinality(ColSet(Tail(columns)) \cap ColSet(dataCols))
        ELSE Len(Head(q).cols))
       + AuditCallsFor(Tail(q))

\* C4: update_table_data returns success only when every row mutation and every
\* audit entry the diff calls for has been persisted.
C4_SuccessMeansAllPersisted ==
  (Returned /\ result.ok) =>
    /\ store = tx
    /\ Cardinality(NewAuditRows) = AuditCallsFor(stmts)

\* ------------------------------------------------------------------- C5
\* the non-key columns in which row k of current differs from original row o
DifferingColumns(k, o) ==
  {c \in NonKeyColumns : Str(originalData[o].d[c]) # Str(currentData[k].d[c])}

\* C5: a row of current that matches a row of original by key and differs from
\* it gets exactly one UPDATE whose SET clause is the differing columns, and one
\* audit entry (old value, new value) per differing column.
C5_OneUpdateAndAuditPerChange ==
  (Returned /\ result.ok) =>
    \A k \in DOMAIN currentData, o \in DOMAIN originalData :
      LET key == Str(currentData[k].d[KeyColumn])
          updates == {n \in DOMAIN stmts : stmts[n].op = "UPDATE" /\ stmts[n].at = k}
      IN (/\ RowsWithKey(originalData, key) = {o}
          /\ RowsWithKey(currentData, key) = {k}
          /\ DifferingColumns(k, o) # {})
         => /\ Cardinality(updates) = 1
            /\ \A n \in updates : ColSet(stmts[n].cols) = DifferingColumns(k, o)
            /\ \A c \in DifferingColumns(k, o) :
                 Cardinality({j \in NewAuditRows :
                    audit[j] = AuditEntry(currentData[k].d[KeyColumn], c,
                                          originalData[o].d[c], currentData[k].d[c],
                                          "UPDATE")}) = 1

\* ------------------------------------------------------------------- C6
\* C6: a key of original that no row of current carries gets exactly one DELETE
\* and one DELETE audit entry (old value, null) per non-key column.
C6_OneDeleteAndAuditPerRemovedKey ==
  (Returned /\ result.ok) =>
    \A o \in DOMAIN originalData :
      LET key == Str(originalData[o].d[KeyColumn])
      IN RowsWithKey(currentData, key) = {}
         => /\ Cardinality({n \in DOMAIN stmts :
                              stmts[n].op = "DELETE" /\ Str(stmts[n].key) = key}) = 1
            /\ \A c \in NonKeyColumns :
                 Cardinality({j \in NewAuditRows :
                    audit[j] = AuditEntry(originalData[o].d[KeyColumn], c,
                                          originalData[o].d[c], NULL, "DELETE")}) = 1

\* ------------------------------------------------------------------- C7
\* current equals original once the marker fields are ignored
SameIgnoringMarkers(cur, orig) ==
  /\ Len(cur) = Len(orig)
  /\ \A k \in DOMAIN cur : cur[k].d = orig[k].d

\* C7: when current equals original up to marker fields the call executes no
\* statement and writes no audit entry, whatever it returns, and when it
\* returns True its message is "No changes detected".
C7_EqualSnapshotsNoChanges ==
  (Returned /\ SameIgnoringMarkers(currentData, originalData)) =>
    /\ stmts = <<>>
    /\ NewAuditRows = {}
    /\ result.ok => result.msg = "No changes detected"

\* ------------------------------------------------------------------- C8
\* row k of current is classified NEW and all its non-key columns are '' or None
BlankNewRow(k) ==
  LET row == currentData[k]
  IN /\ KeyColumn \in DOMAIN row.d
     /\ IsNewRow(row, row.d[KeyColumn],
                 LastWith(originalData, KeyColumn, Str(row.d[KeyColumn]), FALSE) # 0)
     /\ \A c \in NonKeyColumns : row.d[c] = EMPTY \/ row.d[c] = NULL

\* current without its blank NEW rows
WithoutBlankNewRows == SelectSeq([k \in DOMAIN currentData |-> <<k, currentData[k]>>],
                                 LAMBDA p : ~BlankNewRow(p[1]))

\* C8: the loop step of a blank NEW row executes no statement, writes no audit
\* entry and counts nothing, and a DELETE is issued only for a key that the
\* non-NEW rows of current do not carry, with or without the blank NEW rows.
C8_BlankNewRowHasNoEffect ==
  [][ /\ (pc = "loop" /\ columns[1] = KeyColumn /\ BlankNewRow(idx))
         => (stmts' = stmts /\ audit' = audit /\ counts' = counts /\ tx' = tx
             /\ store' = store /\ seqNext' = seqNext /\ pc' # "ret")
      /\ (pc = "del" /\ columns[1] = KeyColumn /\ stmts' # stmts)
         => Str(originalData[idx].d[KeyColumn])
              \notin {Str(WithoutBlankNewRows[n][2].d[KeyColumn]) :
                        n \in {m \in DOMAIN WithoutBlankNewRows :
                                 ~WithoutBlankNewRows[m][2].new}}
    ]_vars

\* a successful call that changed other rows while current held a blank NEW row
C8_Witness ==
  /\ Returned /\ result.ok /\ stmts # <<>> /\ Len(dataCols) > 1
  /\ \E k \in DOMAIN currentData : BlankNewRow(k)

\* ------------------------------------------------------------------- C9
\* a row with every value in its string form
AsStrings(d) == [c \in DOMAIN d |-> Str(d[c])]

\* C9: after a successful call the rows loaded fresh from the store are the rows
\* of current without their marker fields (compared as strings, in any order).
C9_RoundTrip ==
  (Returned /\ result.ok) =>
    \A x \in {AsStrings(store[k]) : k \in DOMAIN store}
             \cup {AsStrings(currentData[k].d) : k \in DOMAIN currentData} :
      Cardinality({k \in DOMAIN store : AsStrings(store[k]) = x})
        = Cardinality({k \in DOMAIN currentData : AsStrings(currentData[k].d) = x})

\* ------------------------------------------------------------------ C10
\* C10: when update_table_data failed, save_data_to_database leaves the original
\* and the current snapshot as they are, changes-pending true and edit mode on.
C10_FailedSaveKeepsSnapshots ==
  [][ (Returned /\ ~result.ok) =>
        /\ originalData' = originalData
        /\ currentData' = currentData
        /\ changesPending /\ changesPending'
        /\ editMode /\ editMode'
    ]_vars

\* the session is back at the grid after a failed save
C10_Witness ==
  /\ pc = "idle" /\ message = "error" /\ nSaves > 0
  /\ editMode /\ changesPending /\ ~SameIgnoringMarkers(currentData, originalData)

\* ------------------------------------------------------------------ C11
\* C11: when save_data_to_database succeeds, the original snapshot becomes the
\* saved current snapshot without its is-new markers, changes-pending becomes
\* false, edit mode goes off, and the current snapshot the UI then holds shows
\* no change against the new original.
C11_PairConsumedOnce ==
  [][ (Returned /\ result.ok) =>
        /\ originalData' = ClearNewMarkers(currentData)
        /\ ~changesPending'
        /\ ~editMode'
        /\ ~ActualChanges(currentData', originalData')
    ]_vars

\* ------------------------------------------------------------------ C12
\* statements of one kind executed by the call
StmtsOf(op) == {n \in DOMAIN stmts : stmts[n].op = op}

\* (row, column) pairs assigned by the UPDATE statements of a statement list
RECURSIVE ChangedPairs(_)
ChangedPairs(q) ==
  IF q = <<>> THEN 0
  ELSE (IF Head(q).op = "UPDATE" THEN Len(Head(q).cols) ELSE 0) + ChangedPairs(Tail(q))

\* two optional parts of a summary, joined
AndThen(x, y) == IF x = "" THEN y ELSE IF y = "" THEN x ELSE x \o " and " \o y

\* the summary the specification prescribes for I inserts, M changes, K deletes
ExpectedSummary(I, M, K) ==
  IF I = 0 /\ M = 0 /\ K = 0 THEN "No changes detected"
  ELSE AndThen(AndThen(IF I > 0 THEN ToString(I) \o " new rows inserted" ELSE "",
                       IF M > 0 THEN ToString(M) \o " changes made" ELSE ""),
               IF K > 0 THEN ToString(K) \o " rows deleted" ELSE "") \o " - all logged"

\* C12: the summary of a successful call lists the non-zero counts only, in the
\* order inserts, changes, deletes, joined by " and " and followed by
\* " - all logged"; it is "No changes detected" exactly when all counts are zero.
C12_SummaryFromCounts ==
  (Returned /\ result.ok) =>
    result.msg = ExpectedSummary(Cardinality(StmtsOf("INSERT")), ChangedPairs(stmts),
                                 Cardinality(StmtsOf("DELETE")))

\* a successful call with one UPDATE of two columns and a DELETE
C12_Witness ==
  /\ Returned /\ result.ok
  /\ ChangedPairs(stmts) = 2 /\ Cardinality(StmtsOf("UPDATE")) = 1
  /\ Cardinality(StmtsOf("DELETE")) = 1
  /\ result.msg = "2 changes made and 1 rows deleted - all logged"

\* ------------------------------------------------------------------ C13
\* C13: one call of update_table_data writes on the connection it checked out
\* only and ends with one commit or one rollback of it: when the call returns,
\* no commit has been made on any other connection since the checkout.
C13_OneConnectionOneCommit == Returned => sideCommits = 0

\* ------------------------------------------------------------------ C14
\* the call of update_table_data holds its connection
InCall == pc \in {"loop", "del", "commit", "ret"}

\* C14: from the checkout of its connection to its return, a call of
\* update_table_data sees the pool it took the connection from: the pool is
\* not closed and recreated, also when the token expires during the call.
C14_PoolStableDuringCall == InCall => poolGen = poolGen0

C15_WitnessLoad ==
  tableSel = TableName /\ window # "load" /\ dataCols = <<>> /\ loadError # ""

ClaimedNew(k) ==
  LET row == currentData[k]
      pkv == row.d[KeyColumn]
  IN \/ row.new
     \/ /\ pkv.t = "n" \/ (pkv.t = "s" /\ pkv.s \in {"", " ", "  "})
        /\ RowsWithKey(originalData, Str(pkv)) = {}

\* row k of current has a non-key column that is neither '' nor None
HasData(k) == \E c \in NonKeyColumns : currentData[k].d[c] \notin {EMPTY, NULL}

\* the statement a loop step has just executed
LastStmt == stmts'[Len(stmts')]

\* the step is an iteration of the row loop that did not raise
LoopStepDone == pc = "loop" /\ (pc' = "del" \/ (pc' = "loop" /\ idx' = idx + 1))

\* C16: a loop step that does not raise treats the row as NEW (an INSERT when
\* the row has data, nothing otherwise) exactly when the row is flagged or has
\* a null, empty or blank key that no original row carries; every other row is
\* treated as existing (an UPDATE or nothing).
C16_NewRowClassification ==
  [][ LoopStepDone =>
        IF ClaimedNew(idx)
        THEN IF HasData(idx)
             THEN Len(stmts') = Len(stmts) + 1 /\ LastStmt.op = "INSERT" /\ LastStmt.at = idx
             ELSE stmts' = stmts
        ELSE \/ stmts' = stmts
             \/ Len(stmts') = Len(stmts) + 1 /\ LastStmt.op = "UPDATE" /\ LastStmt.at = idx
    ]_vars

\* a call has inserted an unflagged row whose key is a blank
C16_Witness ==
  /\ Returned /\ result.ok
  /\ \E n \in StmtsOf("INSERT") :
       LET row == currentData[stmts[n].at]
       IN ~row.new /\ row.d[KeyColumn] = StrV(" ")

\* ------------------------------------------------------------------ C17
\* row k of current is not NEW and no row of original carries its key
Unmatched(k) ==
  /\ ~ClaimedNew(k)
  /\ RowsWithKey(originalData, Str(currentData[k].d[KeyColumn])) = {}

\* C17: the loop step of a row that is not flagged, has a non-empty key and
\* matches no original row executes no statement, writes no audit entry,
\* changes no count and does not fail the call.
C17_UnmatchedRowSkipped ==
  [][ (pc = "loop" /\ Unmatched(idx)) =>
        /\ stmts' = stmts /\ audit' = audit /\ counts' = counts
        /\ tx' = tx /\ store' = store /\ seqNext' = seqNext /\ sideCommits' = sideCommits
        /\ pc' # "ret"
    ]_vars

\* a call has succeeded although current held an unmatched row with data,
\* and none of its statements belongs to that row
C17_Witness ==
  /\ Returned /\ result.ok
  /\ \E k \in DOMAIN currentData :
       /\ Unmatched(k) /\ (Len(dataCols) > 1 => HasData(k))
       /\ \A n \in DOMAIN stmts : stmts[n].op = "DELETE" \/ stmts[n].at # k

\* ------------------------------------------------------------------ C18
\* the original row that the row k of current is compared with: the last row
\* of original with the same string form of the key (0 if there is none)
MatchOf(k) ==
  LET hits == RowsWithKey(originalData, Str(currentData[k].d[KeyColumn]))
  IN IF hits = {} THEN 0 ELSE CHOOSE o \in hits : \A h \in hits : h <= o

\* the non-key columns whose string forms differ between current row k and original row o
StrDiff(k, o) ==
  {c \in NonKeyColumns : Str(originalData[o].d[c]) # Str(currentData[k].d[c])}

\* the columns of the audit entries a step has just written
LoggedColumns == {audit'[j].col : j \in (Len(audit) + 1)..Len(audit')}

\* C18: for an existing row, matched with its original row by the string form
\* of the key, a loop step assigns in its UPDATE exactly the non-key columns
\* whose string forms differ and writes audit entries for such columns only;
\* when no string form differs it executes no UPDATE and writes no audit entry.
C18_StringComparison ==
  [][ (LoopStepDone /\ ~ClaimedNew(idx) /\ MatchOf(idx) # 0) =>
        LET changed == StrDiff(idx, MatchOf(idx))
        IN /\ LoggedColumns \subseteq changed
           /\ schema \in auditTables => LoggedColumns = changed
           /\ IF changed = {} THEN stmts' = stmts
              ELSE /\ Len(stmts') = Len(stmts) + 1
                   /\ LastStmt.op = "UPDATE" /\ LastStmt.at = idx
                   /\ LastStmt.key = currentData[idx].d[KeyColumn]
                   /\ ColSet(LastStmt.cols) = changed
    ]_vars

\* a call has succeeded in which a row differs from its original row in the
\* type of a value only (5 and "5"), and the row got no UPDATE
C18_Witness ==
  /\ Returned /\ result.ok
  /\ \E k \in DOMAIN currentData :
       /\ ~ClaimedNew(k) /\ MatchOf(k) # 0
       /\ \E c \in NonKeyColumns :
            /\ currentData[k].d[c] # originalData[MatchOf(k)].d[c]
            /\ Str(currentData[k].d[c]) = Str(originalData[MatchOf(k)].d[c])
       /\ \A n \in StmtsOf("UPDATE") : stmts[n].at # k

\* a call has updated a row whose key "1" matches the key 1 of original
C18_WitnessKey ==
  /\ Returned /\ result.ok
  /\ \E n \in StmtsOf("UPDATE") :
       LET k == stmts[n].at
       IN currentData[k].d[KeyColumn] = StrV("1")
          /\ originalData[MatchOf(k)].d[KeyColumn] = IntV(1)

\* ------------------------------------------------------------------ C19
\* keys of original that no row of current without the is-new marker carries
RemovedKeys ==
  {Str(originalData[o].d[KeyColumn]) : o \in DOMAIN originalData}
    \ {Str(currentData[k].d[KeyColumn]) : k \in {j \in DOMAIN currentData : ~currentData[j].new}}

\* rows of original from which a row of current with the same key differs
ChangedOriginalRows ==
  {o \in DOMAIN originalData :
     \E k \in DOMAIN currentData : ~ClaimedNew(k) /\ MatchOf(k) = o /\ StrDiff(k, o) # {}}

\* C19: a successful call has executed at most one UPDATE per changed original
\* row, one INSERT per NEW row with data and one DELETE per removed key, and
\* no two of its UPDATEs and no two of its DELETEs name the same key.
C19_OneStatementPerRow ==
  (Returned /\ result.ok) =>
    /\ Cardinality(StmtsOf("UPDATE")) <= Cardinality(ChangedOriginalRows)
    /\ Cardinality(StmtsOf("INSERT"))
         = Cardinality({k \in DOMAIN currentData : ClaimedNew(k) /\ HasData(k)})
    /\ Cardinality(StmtsOf("DELETE")) = Cardinality(RemovedKeys)
    /\ \A m, n \in DOMAIN stmts :
         (m # n /\ stmts[m].op = stmts[n].op /\ stmts[m].op \in {"UPDATE", "DELETE"})
           => Str(stmts[m].key) # Str(stmts[n].key)

\* ------------------------------------------------------------------ C20
\* the non-key columns of row k of current that are neither '' nor None, in column order
PopulatedColumns(k) ==
  SelectSeq(Tail(dataCols), LAMBDA c : currentData[k].d[c] \notin {EMPTY, NULL})

\* C20: the loop step of a NEW row with data, unless it raises, executes one
\* INSERT of exactly the populated non-key columns under the next value of the
\* key sequence, never under the key the row carries, and writes one INSERT
\* audit entry (old null, new the value, record the generated key) per
\* inserted column.
C20_InsertWithGeneratedKey ==
  [][ (LoopStepDone /\ ClaimedNew(idx) /\ HasData(idx)) =>
        LET row == currentData[idx].d
            cols == PopulatedColumns(idx)
        IN /\ Len(stmts') = Len(stmts) + 1
           /\ LastStmt = Stmt("INSERT", idx, IntV(seqNext), cols,
                               [k \in DOMAIN cols |-> row[cols[k]]])
           /\ seqNext' = seqNext + 1
           /\ Len(tx') = Len(tx) + 1
           /\ tx'[Len(tx')][KeyColumn] = IntV(seqNext)
           /\ \A c \in NonKeyColumns :
                tx'[Len(tx')][c] = IF c \in ColSet(cols) THEN row[c] ELSE NULL
           /\ audit' = audit \o [k \in DOMAIN cols |->
                                   [rid |-> ToString(seqNext), col |-> cols[k], old |-> NULL,
                                    new |-> StrV(Str(row[cols[k]])), act |-> "INSERT"]]
    ]_vars

\* ------------------------------------------------------------------ C21
\* the step is an iteration of the deletion pass that did not raise
DelStepDone == pc = "del" /\ (pc' = "commit" \/ (pc' = "del" /\ idx' = idx + 1))

\* rows of current that are not NEW and carry the string form key
KeptRowsWithKey(key) == {k \in RowsWithKey(currentData, key) : ~ClaimedNew(k)}

\* C21: an iteration of the deletion pass that does not raise executes a
\* DELETE for the original row exactly when no row of current that is not NEW
\* carries the string form of its key; rows that are NEW do not count, and
\* what the update loop did with a row does not matter.
C21_DeletedIffKeyAbsent ==
  [][ DelStepDone =>
        LET key == originalData[idx].d[KeyColumn]
        IN IF KeptRowsWithKey(Str(key)) = {}
           THEN /\ Len(stmts') = Len(stmts) + 1
                /\ LastStmt = Stmt("DELETE", idx, key, <<>>, <<>>)
                /\ \A j \in DOMAIN tx' : ~KeyMatch(tx'[j][KeyColumn], key)
           ELSE stmts' = stmts /\ tx' = tx
    ]_vars

\* a call has deleted an original row whose key a flagged row of current
\* carries, and has kept an original row that the update loop changed
C21_Witness ==
  /\ pc = "commit"
  /\ \E n \in StmtsOf("DELETE") :
       \E k \in RowsWithKey(currentData, Str(stmts[n].key)) : currentData[k].new
  /\ \E n \in StmtsOf("UPDATE") :
       /\ KeptRowsWithKey(Str(stmts[n].key)) # {}
       /\ \A m \in StmtsOf("DELETE") : Str(stmts[m].key) # Str(stmts[n].key)

\* ------------------------------------------------------------------ C22
\* C22: a call of update_table_data works against the selected schema only:
\* it creates the audit table in no other schema, and the columns it works
\* with (the first of them the key) are the column metadata of the selected
\* table in the selected schema.
C22_EverythingInSelectedSchema ==
  [][ /\ auditTables' \subseteq auditTables \cup {schema}
      /\ (pc = "idle" /\ pc' = "loop") => (columns' = dataCols /\ columns'[1] = KeyColumn)
    ]_vars

\* ------------------------------------------------------------------ C23
\* row k of current is a row of add_new_row that a successful save of this
\* session has already inserted: original holds its copy, which only the
\* outputs of a successful save put there
AlreadyInserted(k) ==
  /\ currentData[k].new /\ HasData(k)
  /\ \E o \in DOMAIN originalData : originalData[o].d = currentData[k].d

\* C23: no call of update_table_data executes an INSERT for a row of
\* add_new_row that an earlier successful save of the session has inserted.
C23_AddedRowInsertedOnce ==
  pc # "idle" => \A n \in StmtsOf("INSERT") : ~AlreadyInserted(stmts[n].at)

\* ------------------------------------------------------------------ C24
\* C24: when a successful save returns, original names every row the call
\* inserted by the key the store gave it; and the placeholder key of
\* add_new_row is never the WHERE key of a statement nor the record of an
\* audit entry.
C24_InsertedRowKnownByStoreKey ==
  [][ /\ (pc = "ret" /\ result.ok /\ pc' = "idle") =>
           \A n \in StmtsOf("INSERT") :
              originalData'[stmts[n].at].d[KeyColumn] = stmts[n].key
      /\ \A n \in DOMAIN stmts' :
           stmts'[n].op \in {"UPDATE", "DELETE"} => stmts'[n].key # AUTO
      /\ \A j \in DOMAIN audit' : audit'[j].rid # "AUTO"
    ]_vars

\* ------------------------------------------------------------------ C25
\* C25: after rows were removed with handle_delete_row, so that a key of
\* original is missing from current, a click on the enabled save button
\* opens the confirm dialog (whose confirmation runs update_table_data),
\* also when current is the empty list.
C25_RemovedRowsCanBeSaved ==
  (/\ pc = "idle" /\ ~modalOpen /\ editMode /\ saveVisible /\ ~saveDisabled
   /\ nDeletes > 0 /\ RemovedKeys # {})
    => OpensConfirmDialog

\* ------------------------------------------------------------------ C26
\* update_table_data on the pair (original, current) would count an insert, a
\* change or a delete: its summary would not be "No changes detected"
ReconciliationFindsWork ==
  LET o(k) == LastWith(originalData, KeyColumn, Str(currentData[k].d[KeyColumn]), FALSE)
      isNew(k) == IsNewRow(currentData[k], currentData[k].d[KeyColumn], o(k) # 0)
      inserts(k) == isNew(k) /\ InsertColumns(dataCols, currentData[k].d) # <<>>
      changes(k) == /\ ~isNew(k) /\ o(k) # 0
                    /\ ChangedColumns(dataCols, currentData[k].d, originalData[o(k)].d) # <<>>
      deletes(j) == Str(originalData[j].d[KeyColumn]) \notin UpdatedKeys(currentData, KeyColumn)
  IN \/ \E k \in DOMAIN currentData : inserts(k) \/ changes(k)
     \/ \E j \in DOMAIN originalData : deletes(j)

\* C26: in edit mode, for the pair (original, current) the stores hold, a
\* click on the save button opens the confirm dialog exactly when
\* update_table_data on that pair would report an insert, a change or a
\* delete; and a confirmed save that succeeds never reports "No changes
\* detected".
C26_PreCheckAgreesWithReconciliation ==
  /\ (pc = "idle" /\ editMode /\ originalData # <<>> /\ metaCols = dataCols)
       => (OpensConfirmDialog <=> ReconciliationFindsWork)
  /\ (Returned /\ result.ok) => result.msg # "No changes detected"

\* ------------------------------------------------------------------ C30
\* C30: the pool that get_connection hands connections out of was built with
\* a token fetched when the pool was built (not null, not older than 900
\* seconds), also when a call of refresh_oauth_token has failed.
C30_PoolBuiltWithFreshToken == poolFresh

\* ------------------------------------------------------------------ C27
\* the step closes the unsaved-changes dialog through 'Save Changes'
SaveChangesChosen == unsavedOpen /\ ~unsavedOpen' /\ tableSel' = tableSel /\ window' = window

\* C27: while changes are pending and a table is selected, the choice of
\* another table opens the unsaved-changes dialog and leaves
\* selected-table-store and both snapshots as they are; the selected table
\* changes only through 'Discard Changes'; and 'Save Changes' in the dialog
\* starts the save of the pending edits.
C27_NoSilentLossOnSwitch ==
  [][ /\ (changesPending /\ tableSel # NoTable /\ tableChoice' # tableChoice
           /\ tableChoice' # tableSel)
          => (unsavedOpen' /\ UNCHANGED <<tableSel, originalData, currentData>>)
      /\ (changesPending /\ tableSel # NoTable /\ tableSel' # tableSel) => unsavedOpen
      /\ SaveChangesChosen => (pc' # "idle" \/ modalOpen' \/ ~changesPending')
    ]_vars

\* ------------------------------------------------------------------ C28
\* C28: while the audit table is the selected table, a click on the add-row
\* button leaves the stores as they are, no step switches edit mode on, and
\* no call of update_table_data is started.
C28_AuditTableReadOnly ==
  [][ tableSel = AUDIT_TABLE =>
        /\ (nAdds' # nAdds) => UNCHANGED <<originalData, currentData, editMode, changesPending>>
        /\ editMode' => editMode
        /\ pc' = "idle"
    ]_vars

\* ------------------------------------------------------------------ C29
\* C29: while edit mode is off, a cell-value-changed event and a click on the
\* delete column leave current-data-store, changes-pending and the state of
\* the save button as they are.
C29_ViewModeEventsChangeNothing ==
  [][ (~editMode /\ (nEdits' # nEdits \/ nDeletes' # nDeletes)) =>
        UNCHANGED <<currentData, changesPending, saveDisabled, saveVisible, originalData>>
    ]_vars

\* after a save has switched edit mode off and before the grid is rebuilt, a
\* cell of the still editable grid was changed
C29_Witness ==
  /\ ~editMode /\ window = "refresh" /\ raced = 1
  /\ nEdits > 0 /\ gridData # originalData
  /\ ~changesPending /\ saveDisabled

\* in the same situation the delete column was clicked
C29_WitnessClick ==
  /\ ~editMode /\ window = "refresh" /\ raced = 1
  /\ nDeletes = MaxDeletes /\ nEdits = MaxEdits /\ gridData = originalData
  /\ ~changesPending /\ saveDisabled

====
